---- MODULE Spec2Model ----
(***************************************************************************)
(* Model of the sqlingo expression compiler (src/expression.go,            *)
(* src/common.go): expression nodes, the operator builders, the value      *)
(* marshaller and string escaping.                                         *)
(*                                                                         *)
(* SQL text is a TLA+ string.  A host string handed to quoteString is a    *)
(* sequence of byte codes, because the escaping works byte by byte.        *)
(***************************************************************************)
EXTENDS Integers, Sequences, FiniteSets, TLC

VARIABLES
    e,      \* the expression node most recently built
    last,   \* the call that built it: [op, recv, args]
    nops,   \* number of operator calls made on the chain so far
    qs,     \* quoteString: the input string (byte codes)
    qout,   \* quoteString: the returned bytes, <<>> before the call
    heap,   \* backing arrays of the insert builders' slices
    ins,    \* the insert builders a program holds: [s, iface, op, parent, arg]
    snap,   \* snap[i]: what ins[i] held and rendered when it was returned
    got     \* the latest GetSQL call on a builder: [idx, out]

exprVars == <<e, last, nops>>
quoteVars == <<qs, qout>>
insertVars == <<heap, ins, snap, got>>
vars == <<e, last, nops, qs, qout, heap, ins, snap, got>>

(***************************************************************************)
(* Bounds                                                                  *)
(***************************************************************************)
\* longest host string given to quoteString
MaxStrLen == 3
\* operator calls chained on one expression
MaxOps == 1
\* insert builders a program holds at once, the one it starts from included
MaxBuilders == 3

(***************************************************************************)
(* Bytes and text                                                          *)
(***************************************************************************)
NUL == 0
LF == 10
CR == 13
SUB == 26
DQUOTE == 34
SQUOTE == 39
BACKSLASH == 92

\* var needsEscape = [256]int{...}
needsEscape == [b \in 0..255 |->
    IF b \in {NUL, LF, CR, BACKSLASH, SQUOTE, DQUOTE, SUB} THEN 1 ELSE 0]

\* The bytes the model draws host strings from: the seven escaped bytes and
\* two plain letters, 'a' and 's'.
Bytes == {NUL, LF, CR, SUB, DQUOTE, SQUOTE, BACKSLASH, 97, 115}

RECURSIVE SeqsUpTo(_, _)
SeqsUpTo(S, k) ==
    IF k = 0 THEN {<<>>}
    ELSE LET shorter == SeqsUpTo(S, k - 1)
         IN shorter \cup {Append(s, b) : s \in shorter, b \in S}

\* s[i], buf[n] in Go are 0-based; sequences here are 1-based.
RECURSIVE quoteLoop(_, _, _, _)
quoteLoop(s, i, buf, n) ==
    IF i >= Len(s) THEN [buf |-> buf, n |-> n]
    ELSE LET b  == s[i + 1]
             b1 == [buf EXCEPT ![n + 1] = BACKSLASH]
             n1 == n + needsEscape[b]
             b2 == [b1 EXCEPT ![n1 + 1] = b]
         IN quoteLoop(s, i + 1, b2, n1 + 1)

\* quoteString without the escaping
quoteStringDropsEscape(s) ==
    <<SQUOTE>> \o s \o <<SQUOTE>>

quoteString(s) ==
    IF s = <<>> THEN <<SQUOTE, SQUOTE>>
    ELSE LET buf0 == [k \in 1..(Len(s) * 2 + 2) |-> 0]
             r    == quoteLoop(s, 0, [buf0 EXCEPT ![1] = SQUOTE], 1)
             buf1 == [r.buf EXCEPT ![r.n + 1] = SQUOTE]
         IN SubSeq(buf1, 1, r.n + 1)


(***************************************************************************)
(* Text helpers                                                            *)
(***************************************************************************)
\* The text of one byte, for the bytes a TLA+ string can hold.
Chr == [b \in {LF, CR, DQUOTE, SQUOTE, BACKSLASH, 97, 115} |->
    CASE b = LF -> "\n"
      [] b = CR -> "\r"
      [] b = DQUOTE -> "\""
      [] b = SQUOTE -> "'"
      [] b = BACKSLASH -> "\\"
      [] b = 97 -> "a"
      [] b = 115 -> "s"]

RECURSIVE Text(_)
Text(bytes) ==
    IF bytes = <<>> THEN "" ELSE Chr[Head(bytes)] \o Text(Tail(bytes))

Digit == [d \in 0..9 |->
    CASE d = 0 -> "0" [] d = 1 -> "1" [] d = 2 -> "2" [] d = 3 -> "3"
      [] d = 4 -> "4" [] d = 5 -> "5" [] d = 6 -> "6" [] d = 7 -> "7"
      [] d = 8 -> "8" [] d = 9 -> "9"]

RECURSIVE Digits(_)
Digits(n) == IF n < 10 THEN Digit[n] ELSE Digits(n \div 10) \o Digit[n % 10]

\* strconv.Itoa
Itoa(i) == IF i < 0 THEN "-" \o Digits(0 - i) ELSE Digits(i)

(***************************************************************************)
(* Expression nodes (type expression) and their constructors               *)
(***************************************************************************)
NilBuilder == [kind |-> "nil"]

\* expression{...}: fields left out of a Go composite literal are zero
Expr(sql, builder, priority, isTrue, isFalse, isBool) ==
    [sql |-> sql, builder |-> builder, priority |-> priority,
     isTrue |-> isTrue, isFalse |-> isFalse, isBool |-> isBool]

staticExpression(sql, priority, isBool) ==
    Expr(sql, NilBuilder, priority, FALSE, FALSE, isBool)

True == Expr("1", NilBuilder, 0, TRUE, FALSE, TRUE)

False == Expr("0", NilBuilder, 0, FALSE, TRUE, TRUE)

RawPriority == 99

Raw(sql) == Expr(sql, NilBuilder, RawPriority, FALSE, FALSE, FALSE)

(***************************************************************************)
(* Host values (interface{}), by dynamic type                              *)
(***************************************************************************)
NilValue == [kind |-> "nil"]
IntValue(i) == [kind |-> "int", int |-> i]
BoolValue(b) == [kind |-> "bool", bool |-> b]
StringValue(bytes) == [kind |-> "string", str |-> bytes]
ExprValue(x) == [kind |-> "expression", expr |-> x]
\* a finalized SELECT (toSelectFinal): the text and error its GetSQL returns
SelectValue(sql, err) == [kind |-> "select", sql |-> sql, err |-> err]
\* a slice and its elements
SliceValue(elems) == [kind |-> "slice", elems |-> elems]
\* an array (passed by value) and its elements
ArrayValue(elems) == [kind |-> "array", elems |-> elems]
\* reflect.Array, reflect.Slice
IsList(v) == v.kind \in {"slice", "array"}
\* a pointer: to <<v>>, or nil when it points to <<>>
PtrValue(target) == [kind |-> "ptr", target |-> target]
\* a value of a kind the marshaller does not know, without a String method
OtherValue(kindName) == [kind |-> "other", kindName |-> kindName]

(***************************************************************************)
(* Outcomes of GetSQL / getSQL: a normal return (text, priority, error)    *)
(* or a run-time panic.  err = "" is Go's nil error.                       *)
(***************************************************************************)
Ret(sql, priority, err) ==
    [panic |-> FALSE, sql |-> sql, priority |-> priority, err |-> err]
Panic == [panic |-> TRUE, sql |-> "", priority |-> 0, err |-> ""]


(***************************************************************************)
(* Operator builders: each returns a new node holding a closure, written   *)
(* here as a record of the closure's kind and its captured variables.      *)
(***************************************************************************)
binaryOperation(x, operator, value, priority, isBool) ==
    Expr("", [kind |-> "binaryOperation", e |-> x, operator |-> operator,
              value |-> value, priority |-> priority],
         priority, FALSE, FALSE, isBool)

ComparisonPriority == 11
BetweenPriority == 12
NotPriority == 13
AndPriority == 14
XorPriority == 15
OrPriority == 16
AddPriority == 7
MulPriority == 6

NotEquals(x, other) == binaryOperation(x, "<>", other, ComparisonPriority, TRUE)
Equals(x, other) == binaryOperation(x, "=", other, ComparisonPriority, TRUE)
LessThan(x, other) == binaryOperation(x, "<", other, ComparisonPriority, TRUE)
LessThanOrEquals(x, other) == binaryOperation(x, "<=", other, ComparisonPriority, TRUE)
GreaterThan(x, other) == binaryOperation(x, ">", other, ComparisonPriority, TRUE)
GreaterThanOrEquals(x, other) == binaryOperation(x, ">=", other, ComparisonPriority, TRUE)
Like(x, other) == binaryOperation(x, "LIKE", other, ComparisonPriority, TRUE)

\* value.(expression) succeeds for a value whose dynamic type is expression;
\* the result <<>> is Go's nil BooleanExpression.
toBooleanExpression(value) ==
    CASE value.kind # "expression" -> <<>>
      [] value.kind = "expression" /\ value.expr.isTrue -> <<True>>
      [] value.kind = "expression" /\ ~value.expr.isTrue /\ value.expr.isFalse -> <<False>>
      [] value.kind = "expression" /\ ~value.expr.isTrue /\ ~value.expr.isFalse
            /\ value.expr.isBool -> <<value.expr>>
      [] OTHER -> <<>>

\* And that folds a false left operand only
AndFoldsFalseOnly(x, other) ==
    IF x.isFalse THEN x ELSE binaryOperation(x, "AND", other, 14, TRUE)

And(x, other) ==
    CASE x.isFalse -> x
      [] ~x.isFalse /\ x.isTrue /\ toBooleanExpression(other) # <<>> ->
            toBooleanExpression(other)[1]
      [] OTHER -> binaryOperation(x, "AND", other, AndPriority, TRUE)

Or(x, other) ==
    CASE x.isTrue -> x
      [] ~x.isTrue /\ x.isFalse /\ toBooleanExpression(other) # <<>> ->
            toBooleanExpression(other)[1]
      [] OTHER -> binaryOperation(x, "OR", other, OrPriority, TRUE)

Xor(x, other) == binaryOperation(x, "XOR", other, XorPriority, TRUE)

Add(x, other) == binaryOperation(x, "+", other, AddPriority, FALSE)
Sub(x, other) == binaryOperation(x, "-", other, AddPriority, FALSE)
Mul(x, other) == binaryOperation(x, "*", other, MulPriority, FALSE)
Div(x, other) == binaryOperation(x, "/", other, MulPriority, FALSE)
IntDiv(x, other) == binaryOperation(x, "DIV", other, MulPriority, FALSE)
Mod(x, other) == binaryOperation(x, "%", other, MulPriority, FALSE)

prefixSuffixExpression(x, prefix, suffix, priority, isBool) ==
    IF x.sql # ""
    THEN Expr(prefix \o x.sql \o suffix, NilBuilder, priority, FALSE, FALSE, isBool)
    ELSE Expr("", [kind |-> "prefixSuffixExpression", e |-> x, prefix |-> prefix,
                   suffix |-> suffix, priority |-> priority],
              priority, FALSE, FALSE, isBool)

IsNull(x) == prefixSuffixExpression(x, "", " IS NULL", ComparisonPriority, TRUE)

Not(x) ==
    CASE x.isTrue -> False
      [] ~x.isTrue /\ x.isFalse -> True
      [] OTHER -> prefixSuffixExpression(x, "NOT ", "", NotPriority, TRUE)

IsNotNull(x) == prefixSuffixExpression(x, "", " IS NOT NULL", ComparisonPriority, TRUE)
IsTrue(x) == prefixSuffixExpression(x, "", " IS TRUE", ComparisonPriority, TRUE)
IsNotTrue(x) == prefixSuffixExpression(x, "", " IS NOT TRUE", ComparisonPriority, TRUE)
IsFalse(x) == prefixSuffixExpression(x, "", " IS FALSE", ComparisonPriority, TRUE)
IsNotFalse(x) == prefixSuffixExpression(x, "", " IS NOT FALSE", ComparisonPriority, TRUE)

\* func function(name, args...) and its exported wrapper
function(name, args) ==
    Expr("", [kind |-> "function", name |-> name, args |-> args], 0, FALSE, FALSE, FALSE)

Function(name, args) == function(name, args)

Sum(x) == function("SUM", <<ExprValue(x)>>)
Avg(x) == function("AVG", <<ExprValue(x)>>)
Min(x) == function("MIN", <<ExprValue(x)>>)
Max(x) == function("MAX", <<ExprValue(x)>>)
IfNull(x, altValue) == Function("IFNULL", <<ExprValue(x), altValue>>)

As(x, name) ==
    Expr("", [kind |-> "As", e |-> x, name |-> name], 0, FALSE, FALSE, FALSE)

buildBetween(x, operator, min, max) ==
    Expr("", [kind |-> "buildBetween", e |-> x, operator |-> operator,
              min |-> min, max |-> max],
         BetweenPriority, FALSE, FALSE, FALSE)

Between(x, min, max) == buildBetween(x, " BETWEEN ", min, max)
NotBetween(x, min, max) == buildBetween(x, " NOT BETWEEN ", min, max)

(***************************************************************************)
(* Flattening of the arguments of In / NotIn.  A reflect.Value is a host   *)
(* value, or the zero Value (kind Invalid) that reflect.ValueOf(nil) and   *)
(* Elem() of a nil pointer or nil interface give.                          *)
(***************************************************************************)
Flat(vals) == [panic |-> FALSE, vals |-> vals]
FlatPanic == [panic |-> TRUE, vals |-> <<>>]

RECURSIVE expandSliceValue(_), expandElems(_, _, _)
\* the loop over a slice's elements, appending each element's expansion
expandElems(elems, i, result) ==
    IF i > Len(elems) THEN Flat(result)
    ELSE LET r == expandSliceValue(elems[i])
         IN IF r.panic THEN FlatPanic
            ELSE expandElems(elems, i + 1, result \o r.vals)

expandSliceValue(value) ==
    CASE IsList(value) -> expandElems(value.elems, 1, <<>>)
      [] value.kind = "ptr" ->
            IF value.target = <<>>
            THEN FlatPanic  \* Elem() is the zero Value; Interface() on it panics
            ELSE expandSliceValue(value.target[1])
      [] value.kind = "nil" -> FlatPanic  \* zero Value: Interface() panics
      [] OTHER -> Flat(<<value>>)

expandSliceValues(values) == expandElems(values, 1, <<>>)

\* The node a crashed constructor call never returned.
Crash == [crashed |-> TRUE]

getBuilder(x, single, joiner, values) ==
    [kind |-> "getBuilder", e |-> x, single |-> single, joiner |-> joiner,
     values |-> values]

\* In without the empty-list case
InWithoutEmptyCase(x, values) ==
    LET flat == expandSliceValues(values)
    IN IF flat.panic THEN Crash
       ELSE Expr("", getBuilder(x, "Equals", " IN (", flat.vals),
                 11, FALSE, FALSE, FALSE)

In(x, values) ==
    LET flat == expandSliceValues(values)
    IN IF flat.panic THEN Crash
       ELSE IF Len(flat.vals) = 0 THEN False
       ELSE Expr("", getBuilder(x, "Equals", " IN (", flat.vals),
                 ComparisonPriority, FALSE, FALSE, FALSE)

NotIn(x, values) ==
    LET flat == expandSliceValues(values)
    IN IF flat.panic THEN Crash
       ELSE IF Len(flat.vals) = 0 THEN True
       ELSE Expr("", getBuilder(x, "NotEquals", " NOT IN (", flat.vals),
                 ComparisonPriority, FALSE, FALSE, FALSE)


(***************************************************************************)
(* Rendering: expression.GetSQL, the closures the builders return, and the *)
(* value marshaller getSQL.                                                *)
(***************************************************************************)
RECURSIVE GetSQL(_, _), runBuilder(_, _), getSQL(_, _),
          getSQLFromReflectValue(_, _), commaLoop(_, _, _, _)

\* toSelectFinal.GetSQL of a finalized SELECT
selectGetSQL(value) == Ret(value.sql, 0, value.err)

\* the marshaller under the name common.go calls it by
getSQLFromWhatever(scope, value) == getSQL(scope, value)

\* the loop of commaValues returning the text so far along with the error
commaLoopKeepsText(scope, values, i, sql) ==
    IF i > Len(values) THEN Ret(sql, 0, "")
    ELSE LET sep  == IF i > 1 THEN sql \o ", " ELSE sql
             item == getSQLFromWhatever(scope, values[i])
         IN CASE item.panic -> Panic
              [] ~item.panic /\ item.err # "" -> Ret(sql, 0, item.err)
              [] OTHER -> commaLoop(scope, values, i + 1, sep \o item.sql)

\* the loop of commaValues from item i on, sql being the text so far
commaLoop(scope, values, i, sql) ==
    IF i > Len(values) THEN Ret(sql, 0, "")
    ELSE LET sep  == IF i > 1 THEN sql \o ", " ELSE sql
             item == getSQLFromWhatever(scope, values[i])
         IN CASE item.panic -> Panic
              [] ~item.panic /\ item.err # "" -> Ret("", 0, item.err)
              [] OTHER -> commaLoop(scope, values, i + 1, sep \o item.sql)

commaValues(scope, values) == commaLoop(scope, values, 1, "")

Paren(yes, sql) == IF yes THEN "(" \o sql \o ")" ELSE sql

\* binaryOperation's closure with the left test widened to >=
binaryOperationBuilderLeftGe(scope, b) ==
    LET left  == GetSQL(b.e, scope)
        right == getSQL(scope, b.value)
    IN CASE left.panic -> Panic
         [] ~left.panic /\ left.err # "" -> Ret("", 0, left.err)
         [] ~left.panic /\ left.err = "" /\ right.panic -> Panic
         [] ~left.panic /\ left.err = "" /\ ~right.panic /\ right.err # "" ->
               Ret("", 0, right.err)
         [] OTHER ->
               Ret(Paren(b.e.priority >= b.priority, left.sql)
                   \o " " \o b.operator \o " "
                   \o Paren(right.priority >= b.priority, right.sql), 0, "")

\* the closure binaryOperation returns
binaryOperationBuilder(scope, b) ==
    LET left == GetSQL(b.e, scope)
    IN CASE left.panic -> Panic
         [] ~left.panic /\ left.err # "" -> Ret("", 0, left.err)
         [] OTHER ->
            LET leftPriority == b.e.priority
                right == getSQL(scope, b.value)
            IN CASE right.panic -> Panic
                 [] ~right.panic /\ right.err # "" -> Ret("", 0, right.err)
                 [] OTHER ->
                    LET shouldParenthesizeLeft == leftPriority > b.priority
                        shouldParenthesizeRight == right.priority >= b.priority
                    IN Ret(Paren(shouldParenthesizeLeft, left.sql)
                           \o " " \o b.operator \o " "
                           \o Paren(shouldParenthesizeRight, right.sql), 0, "")

\* prefixSuffixExpression's closure with the test widened to >=
prefixSuffixBuilderGe(scope, b) ==
    LET expr == GetSQL(b.e, scope)
    IN CASE expr.panic -> Panic
         [] ~expr.panic /\ expr.err # "" -> Ret("", 0, expr.err)
         [] OTHER ->
            Ret(b.prefix \o Paren(b.e.priority >= b.priority, expr.sql)
                \o b.suffix, 0, "")

\* the closure prefixSuffixExpression returns
prefixSuffixBuilder(scope, b) ==
    LET expr == GetSQL(b.e, scope)
    IN CASE expr.panic -> Panic
         [] ~expr.panic /\ expr.err # "" -> Ret("", 0, expr.err)
         [] OTHER ->
            LET shouldParenthesize == b.e.priority > b.priority
            IN Ret(b.prefix \o Paren(shouldParenthesize, expr.sql) \o b.suffix, 0, "")

\* getBuilder's closure without the single-value case
getBuilderBuilderListOnly(scope, b) ==
    LET vals == commaValues(scope, b.values)
        expr == GetSQL(b.e, scope)
    IN CASE vals.panic -> Panic
         [] ~vals.panic /\ vals.err # "" -> Ret("", 0, vals.err)
         [] ~vals.panic /\ vals.err = "" /\ expr.panic -> Panic
         [] ~vals.panic /\ vals.err = "" /\ ~expr.panic /\ expr.err # "" ->
               Ret("", 0, expr.err)
         [] OTHER -> Ret(expr.sql \o b.joiner \o vals.sql \o ")", 0, "")

\* the closure getBuilder returns
getBuilderBuilder(scope, b) ==
    LET isSub   == Len(b.values) = 1 /\ b.values[1].kind = "select"
        single  == IF b.single = "Equals" THEN Equals(b.e, b.values[1])
                   ELSE NotEquals(b.e, b.values[1])
        vals    == IF isSub THEN selectGetSQL(b.values[1])
                   ELSE commaValues(scope, b.values)
    IN IF Len(b.values) = 1 /\ ~isSub
       THEN GetSQL(single, scope)
       ELSE CASE vals.panic -> Panic
              [] ~vals.panic /\ vals.err # "" -> Ret("", 0, vals.err)
              [] OTHER ->
                 LET expr == GetSQL(b.e, scope)
                 IN CASE expr.panic -> Panic
                      [] ~expr.panic /\ expr.err # "" -> Ret("", 0, expr.err)
                      [] OTHER -> Ret(expr.sql \o b.joiner \o vals.sql \o ")", 0, "")

\* buildBetween's closure dropping the error of max
buildBetweenBuilderDropsMaxError(scope, b) ==
    LET expr == GetSQL(b.e, scope)
        min  == getSQL(scope, b.min)
        max  == getSQL(scope, b.max)
    IN CASE expr.panic -> Panic
         [] ~expr.panic /\ expr.err # "" -> Ret("", 0, expr.err)
         [] ~expr.panic /\ expr.err = "" /\ min.panic -> Panic
         [] ~expr.panic /\ expr.err = "" /\ ~min.panic /\ min.err # "" ->
               Ret("", 0, min.err)
         [] ~expr.panic /\ expr.err = "" /\ ~min.panic /\ min.err = "" /\ max.panic ->
               Panic
         [] OTHER -> Ret(expr.sql \o b.operator \o min.sql
                         \o " AND " \o max.sql, 0, "")

\* the closure buildBetween returns
buildBetweenBuilder(scope, b) ==
    LET expr == GetSQL(b.e, scope)
    IN CASE expr.panic -> Panic
         [] ~expr.panic /\ expr.err # "" -> Ret("", 0, expr.err)
         [] OTHER ->
            LET min == getSQL(scope, b.min)
            IN CASE min.panic -> Panic
                 [] ~min.panic /\ min.err # "" -> Ret("", 0, min.err)
                 [] OTHER ->
                    LET max == getSQL(scope, b.max)
                    IN CASE max.panic -> Panic
                         [] ~max.panic /\ max.err # "" -> Ret("", 0, max.err)
                         [] OTHER -> Ret(expr.sql \o b.operator \o min.sql
                                         \o " AND " \o max.sql, 0, "")

\* the closure function returns
functionBuilder(scope, b) ==
    LET vals == commaValues(scope, b.args)
    IN CASE vals.panic -> Panic
         [] ~vals.panic /\ vals.err # "" -> Ret("", 0, vals.err)
         [] OTHER -> Ret(b.name \o "(" \o vals.sql \o ")", 0, "")

\* the closure As returns
AsBuilder(scope, b) ==
    LET expr == GetSQL(b.e, scope)
    IN CASE expr.panic -> Panic
         [] ~expr.panic /\ expr.err # "" -> Ret("", 0, expr.err)
         [] OTHER -> Ret(expr.sql \o " AS " \o b.name, 0, "")

\* e.builder(scope); calling a nil func panics
runBuilder(b, scope) ==
    CASE b.kind = "nil" -> Panic
      [] b.kind = "binaryOperation" -> binaryOperationBuilder(scope, b)
      [] b.kind = "prefixSuffixExpression" -> prefixSuffixBuilder(scope, b)
      [] b.kind = "getBuilder" -> getBuilderBuilder(scope, b)
      [] b.kind = "buildBetween" -> buildBetweenBuilder(scope, b)
      [] b.kind = "function" -> functionBuilder(scope, b)
      [] b.kind = "As" -> AsBuilder(scope, b)

GetSQL(x, scope) ==
    IF x.sql # "" THEN Ret(x.sql, 0, "") ELSE runBuilder(x.builder, scope)

getOperatorPriority(x) == x.priority

\* the pointer loop of getSQLFromReflectValue: <<>> for a nil pointer on the
\* way, else <<v>>, the first value that is no pointer
RECURSIVE deref(_)
deref(v) ==
    IF v.target = <<>> THEN <<>>
    ELSE IF v.target[1].kind = "ptr" THEN deref(v.target[1])
    ELSE v.target

getSQLFromReflectValue(scope, v) ==
    CASE v.kind = "ptr" ->
            IF deref(v) = <<>> THEN Ret("NULL", 0, "")
            ELSE getSQL(scope, deref(v)[1])
      [] v.kind = "bool" -> Ret(IF v.bool THEN "1" ELSE "0", 0, "")
      [] IsList(v) ->
            LET r == commaValues(scope, v.elems)
            IN CASE r.panic -> Panic
                 [] ~r.panic /\ r.err = "" -> Ret("(" \o r.sql \o ")", 0, "")
                 [] OTHER -> Ret(r.sql, 0, r.err)
      [] v.kind = "model" -> Ret("", 0, "invalid type struct")
      [] OTHER -> Ret("", 0, "invalid type " \o v.kindName)

getSQL(scope, value) ==
    CASE value.kind = "nil" -> Ret("NULL", 0, "")
      [] value.kind = "int" -> Ret(Itoa(value.int), 0, "")
      [] value.kind = "string" -> Ret(Text(quoteString(value.str)), 0, "")
      [] value.kind = "expression" ->
            LET r == GetSQL(value.expr, scope)
            IN IF r.panic THEN Panic
               ELSE Ret(r.sql, getOperatorPriority(value.expr), r.err)
      [] value.kind = "select" ->
            LET r == selectGetSQL(value)
            IN IF r.err # "" THEN Ret(r.sql, 0, r.err)
               ELSE Ret("(" \o r.sql \o ")", 0, "")
      [] OTHER -> getSQLFromReflectValue(scope, value)


(***************************************************************************)
(* The expression builder as a system: start from a seed expression and    *)
(* chain operator calls on it.                                             *)
(***************************************************************************)
\* the rendering context; the modelled nodes never read it
scope0 == [Tables |-> <<"t">>]

\* leaves: literal operands, the constants, raw fragments, function calls
LitA == staticExpression("a", 0, FALSE)
LitB == staticExpression("b", 0, FALSE)
LitP == staticExpression("p", 0, TRUE)
LitQ == staticExpression("q", 0, TRUE)
CallF == Function("F", <<IntValue(5)>>)
\* a call whose argument cannot be marshalled: rendering it is an error
CallBad == Function("G", <<OtherValue("struct")>>)
\* a call with a sequence for argument, one element of which cannot be
\* marshalled
CallBadList == Function("H", <<SliceValue(<<IntValue(1), OtherValue("chan")>>)>>)

Atoms == {LitA, LitP, True, False, Raw("r"), Raw(""), CallF, CallBad, CallBadList}

\* expressions one operator call deep, one for each priority and shape
Composites ==
    {Add(LitA, ExprValue(LitB)), Sub(LitA, ExprValue(LitB)),
     Mul(LitA, ExprValue(LitB)), Equals(LitA, IntValue(5)),
     Or(LitP, ExprValue(LitQ)), And(LitP, ExprValue(LitQ)),
     Not(LitP), Not(Or(LitP, ExprValue(LitQ))), Not(Raw("r")),
     IsNull(LitA), In(LitA, <<IntValue(1), IntValue(2)>>),
     Between(LitA, IntValue(1), IntValue(10))}

Seeds == Atoms \cup Composites

\* operands handed to the binary operators, IfNull and Between
Operands ==
    {NilValue, IntValue(5), StringValue(<<115, SQUOTE>>), OtherValue("map"),
     SelectValue("SELECT 1", ""), SelectValue("SELECT", "select failed"),
     ExprValue(LitB), ExprValue(LitQ), ExprValue(True), ExprValue(False),
     ExprValue(Raw("r")), ExprValue(Sub(LitB, IntValue(1))),
     ExprValue(Equals(LitB, IntValue(1))), ExprValue(CallBad),
     SliceValue(<<IntValue(1), OtherValue("map")>>)}

\* argument lists handed to In / NotIn
ArgLists ==
    {<<>>, <<SliceValue(<<>>)>>,
     <<SliceValue(<<SliceValue(<<>>), SliceValue(<<SliceValue(<<>>)>>)>>)>>,
     <<IntValue(5)>>, <<SliceValue(<<IntValue(5)>>)>>,
     <<PtrValue(<<IntValue(5)>>)>>, <<ExprValue(LitB)>>,
     <<StringValue(<<115>>)>>, <<OtherValue("map")>>,
     <<IntValue(1), IntValue(2), IntValue(3)>>,
     <<SliceValue(<<IntValue(1), SliceValue(<<IntValue(2)>>)>>), IntValue(3)>>,
     <<IntValue(1), ExprValue(Sub(LitB, IntValue(1)))>>,
     <<IntValue(1), OtherValue("map")>>,
     <<SelectValue("SELECT 1", "")>>, <<SelectValue("SELECT", "select failed")>>,
     <<SelectValue("SELECT 1", ""), IntValue(2)>>,
     <<NilValue>>, <<PtrValue(<<>>)>>,
     <<IntValue(1), SliceValue(<<PtrValue(<<>>)>>), IntValue(2)>>}

BetweenBounds ==
    {<<IntValue(1), IntValue(10)>>, <<OtherValue("map"), IntValue(10)>>,
     <<IntValue(1), OtherValue("map")>>,
     <<ExprValue(Sub(LitB, IntValue(1))), ExprValue(Raw("r"))>>,
     <<SliceValue(<<IntValue(1), ExprValue(Sub(LitB, IntValue(1)))>>), IntValue(10)>>,
     <<IntValue(1), ArrayValue(<<IntValue(2), ExprValue(CallBad)>>)>>}

CompareOps == {"NotEquals", "Equals", "LessThan", "LessThanOrEquals",
               "GreaterThan", "GreaterThanOrEquals", "Like"}
LogicOps == {"And", "Or", "Xor"}
ArithOps == {"Add", "Sub", "Mul", "Div", "IntDiv", "Mod"}
UnaryOps == {"IsNull", "Not", "IsNotNull", "IsTrue", "IsNotTrue", "IsFalse",
             "IsNotFalse"}
AggregateOps == {"Sum", "Avg", "Min", "Max"}

\* the method of the given name, called on x with one argument
Call2(op, x, other) ==
    CASE op = "NotEquals" -> NotEquals(x, other)
      [] op = "Equals" -> Equals(x, other)
      [] op = "LessThan" -> LessThan(x, other)
      [] op = "LessThanOrEquals" -> LessThanOrEquals(x, other)
      [] op = "GreaterThan" -> GreaterThan(x, other)
      [] op = "GreaterThanOrEquals" -> GreaterThanOrEquals(x, other)
      [] op = "Like" -> Like(x, other)
      [] op = "And" -> And(x, other)
      [] op = "Or" -> Or(x, other)
      [] op = "Xor" -> Xor(x, other)
      [] op = "Add" -> Add(x, other)
      [] op = "Sub" -> Sub(x, other)
      [] op = "Mul" -> Mul(x, other)
      [] op = "Div" -> Div(x, other)
      [] op = "IntDiv" -> IntDiv(x, other)
      [] op = "Mod" -> Mod(x, other)
      [] op = "IfNull" -> IfNull(x, other)

\* the method of the given name, called on x without arguments
Call1(op, x) ==
    CASE op = "IsNull" -> IsNull(x)
      [] op = "Not" -> Not(x)
      [] op = "IsNotNull" -> IsNotNull(x)
      [] op = "IsTrue" -> IsTrue(x)
      [] op = "IsNotTrue" -> IsNotTrue(x)
      [] op = "IsFalse" -> IsFalse(x)
      [] op = "IsNotFalse" -> IsNotFalse(x)
      [] op = "Sum" -> Sum(x)
      [] op = "Avg" -> Avg(x)
      [] op = "Min" -> Min(x)
      [] op = "Max" -> Max(x)

Init ==
    /\ e \in Seeds
    /\ last = [op |-> "seed"]
    /\ nops = 0
    /\ qs = <<>>
    /\ qout = <<>>
    /\ heap = <<>>
    /\ ins = <<>>
    /\ snap = <<>>
    /\ got = [idx |-> 0]

\* A call can be made on e: the chain is not exhausted, the last call
\* returned, and e is an Expression (an Alias has GetSQL only).
CanCall == nops < MaxOps /\ e # Crash /\ last.op # "As"

Called(op, args, result) ==
    /\ e' = result
    /\ last' = [op |-> op, recv |-> e, args |-> args]
    /\ nops' = nops + 1
    /\ UNCHANGED <<quoteVars, insertVars>>

Compare ==
    /\ CanCall
    /\ \E op \in CompareOps, other \in Operands :
          Called(op, <<other>>, Call2(op, e, other))

Logic ==
    /\ CanCall
    /\ \E op \in LogicOps, other \in Operands :
          Called(op, <<other>>, Call2(op, e, other))

Arith ==
    /\ CanCall
    /\ \E op \in ArithOps, other \in Operands :
          Called(op, <<other>>, Call2(op, e, other))

Unary ==
    /\ CanCall
    /\ \E op \in UnaryOps : Called(op, <<>>, Call1(op, e))

Aggregate ==
    /\ CanCall
    /\ \E op \in AggregateOps : Called(op, <<>>, Call1(op, e))

CallIfNull ==
    /\ CanCall
    /\ \E other \in Operands : Called("IfNull", <<other>>, IfNull(e, other))

CallIn ==
    /\ CanCall
    /\ \E values \in ArgLists : Called("In", values, In(e, values))

CallNotIn ==
    /\ CanCall
    /\ \E values \in ArgLists : Called("NotIn", values, NotIn(e, values))

CallBetween ==
    /\ CanCall
    /\ \E mm \in BetweenBounds : Called("Between", mm, Between(e, mm[1], mm[2]))

CallNotBetween ==
    /\ CanCall
    /\ \E mm \in BetweenBounds :
          Called("NotBetween", mm, NotBetween(e, mm[1], mm[2]))

CallAs ==
    /\ CanCall
    /\ Called("As", <<"x">>, As(e, "x"))

Next ==
    \/ Compare
    \/ Logic
    \/ Arith
    \/ Unary
    \/ Aggregate
    \/ CallIfNull
    \/ CallIn
    \/ CallNotIn
    \/ CallBetween
    \/ CallNotBetween
    \/ CallAs

Spec == Init /\ [][Next]_vars

\* what rendering the current node returns
Rendered == GetSQL(e, scope0)

(***************************************************************************)
(* quoteString as a system: draw a string, call quoteString on it.         *)
(***************************************************************************)
NoNode == [sql |-> "", builder |-> [kind |-> "nil"], priority |-> 0,
           isTrue |-> FALSE, isFalse |-> FALSE, isBool |-> FALSE]

QuoteInit ==
    /\ qs \in SeqsUpTo(Bytes, MaxStrLen)
    /\ qout = <<>>
    /\ e = NoNode
    /\ last = [op |-> "none"]
    /\ nops = 0
    /\ heap = <<>>
    /\ ins = <<>>
    /\ snap = <<>>
    /\ got = [idx |-> 0]

QuoteCall ==
    /\ qout = <<>>
    /\ qout' = quoteString(qs)
    /\ UNCHANGED <<qs, exprVars, insertVars>>

QuoteNext == QuoteCall

SpecQuote == QuoteInit /\ [][QuoteNext]_vars

(***************************************************************************)
(* INSERT builders (src/insert.go).  A builder is a struct passed by       *)
(* value; its values and assignments are Go slices, modelled as headers    *)
(* [arr, len, cap] over backing arrays kept in a heap, so that two         *)
(* builders sharing an array is something the model can express.           *)
(***************************************************************************)
\* the nil slice, and the slice []T{}: no backing array
NilSlice == [arr |-> 0, len |-> 0, cap |-> 0]
\* the content of an array cell that was never written
ZeroCell == [kind |-> "zero"]

\* the elements a slice header gives access to
Cells(h, s) == IF s.len = 0 THEN <<>> ELSE SubSeq(h[s.arr], 1, s.len)

\* capacity of the array append allocates when the old one is full
growCap(oldCap, newLen) ==
    IF newLen > 2 * oldCap THEN newLen ELSE 2 * oldCap

\* append(s, x): written in place when the capacity allows, else into a
\* larger array that receives a copy of the elements
appendOne(h, s, x) ==
    IF s.len < s.cap
    THEN [heap |-> [h EXCEPT ![s.arr][s.len + 1] = x],
          slice |-> [s EXCEPT !.len = s.len + 1]]
    ELSE LET c == growCap(s.cap, s.len + 1)
         IN [heap |-> Append(h, Cells(h, s) \o <<x>>
                                 \o [k \in 1..(c - s.len - 1) |-> ZeroCell]),
             slice |-> [arr |-> Len(h) + 1, len |-> s.len + 1, cap |-> c]]

\* append([]T{}, s...): a new array holding exactly the elements of s
copySlice(h, s) ==
    IF s.len = 0 THEN [heap |-> h, slice |-> NilSlice]
    ELSE [heap |-> Append(h, Cells(h, s)),
          slice |-> [arr |-> Len(h) + 1, len |-> s.len, cap |-> s.len]]

\* a value of a generated model type: its table and its column values
ModelValue(table, values) == [kind |-> "model", table |-> table, values |-> values]
\* a nil pointer of type *T, T a generated model type: a nil pointer like
\* PtrValue(<<>>) to the marshaller and the flattening, but it implements
\* Model, and calling GetTable on it dereferences nil
NilModelPtr == [kind |-> "ptr", target |-> <<>>, elem |-> "model"]

InsertInto(table) ==
    [method |-> "INSERT", scope |-> [Tables |-> <<table>>], fields |-> <<>>,
     values |-> NilSlice, models |-> <<>>,
     onDuplicateKeyUpdateAssignments |-> NilSlice]

\* The builder methods: each takes the heap and the receiver (a copy of the
\* caller's struct) and returns the heap and the builder it returns.
insertFields(h, s, fields) ==
    [heap |-> h, s |-> [s EXCEPT !.fields = fields]]

insertValuesNoCopy(h, s, values) ==
    LET a == appendOne(h, s.values, SliceValue(values))
    IN [heap |-> a.heap, s |-> [s EXCEPT !.values = a.slice]]

insertValues(h, s, values) ==
    LET c == copySlice(h, s.values)
        a == appendOne(c.heap, c.slice, SliceValue(values))
    IN [heap |-> a.heap, s |-> [s EXCEPT !.values = a.slice]]

insertModels(h, s, models) ==
    [heap |-> h, s |-> [s EXCEPT !.models = models]]

insertOnDuplicateKeyUpdate(h, s) == [heap |-> h, s |-> s]

insertSetNoCopy(h, s, field, value) ==
    LET a == appendOne(h, s.onDuplicateKeyUpdateAssignments,
                       [field |-> field, value |-> value])
    IN [heap |-> a.heap,
        s |-> [s EXCEPT !.onDuplicateKeyUpdateAssignments = a.slice]]

insertSet(h, s, field, value) ==
    LET c == copySlice(h, s.onDuplicateKeyUpdateAssignments)
        a == appendOne(c.heap, c.slice, [field |-> field, value |-> value])
    IN [heap |-> a.heap,
        s |-> [s EXCEPT !.onDuplicateKeyUpdateAssignments = a.slice]]

\* outcome of addModel: the models collected so far, an error, or a panic
Added(models, err) == [panic |-> FALSE, models |-> models, err |-> err]
AddPanic == [panic |-> TRUE, models |-> <<>>, err |-> ""]

\* the names of the reflect.Kind values 1 .. 26, in the order of their
\* numbers (Invalid is 0)
KindNames ==
    <<"bool", "int", "int8", "int16", "int32", "int64", "uint", "uint8",
      "uint16", "uint32", "uint64", "uintptr", "float32", "float64",
      "complex64", "complex128", "array", "chan", "func", "interface", "map",
      "ptr", "slice", "string", "struct", "unsafe.Pointer">>

KindNamed(name) == CHOOSE k \in DOMAIN KindNames : KindNames[k] = name

\* reflect.Kind of a value that is not a model, as fmt prints it with %d;
\* an Expression and a finalized SELECT are structs
kindNumber(v) ==
    CASE v.kind = "nil" -> 0
      [] v.kind \in {"bool", "int", "string"} -> KindNamed(v.kind)
      [] v.kind = "other" -> KindNamed(v.kindName)
      [] OTHER -> KindNamed("struct")

\* PtrValue(<<>>) is a nil pointer to a type that is not a model, such as
\* (*int)(nil): reflect.Indirect gives the zero Value and Interface() on it
\* panics.  The elements of an array held in an interface are not
\* addressable: Addr() on the first of them panics.
RECURSIVE addModel(_, _), addModelElems(_, _, _)
addModel(models, model) ==
    CASE model.kind = "model" \/ model = NilModelPtr ->
            Added(Append(models, model), "")
      [] model.kind = "ptr" /\ model # NilModelPtr ->
            IF model.target = <<>> THEN AddPanic
            ELSE IF model.target[1].kind = "model"
            THEN Added(Append(models, model.target[1]), "")
            ELSE addModel(models, model.target[1])
      [] model.kind = "slice" -> addModelElems(models, model.elems, 1)
      [] model.kind = "array" ->
            IF model.elems = <<>> THEN Added(models, "") ELSE AddPanic
      [] OTHER -> Added(models, "unknown model type (kind = "
                                \o Itoa(kindNumber(model)) \o ")")

addModelElems(models, elems, i) ==
    IF i > Len(elems) THEN Added(models, "")
    ELSE LET r == addModel(models, PtrValue(<<elems[i]>>))
         IN IF r.panic \/ r.err # "" THEN r
            ELSE addModelElems(r.models, elems, i + 1)

\* the loop of GetSQL over s.models
RECURSIVE addModels(_, _, _)
addModels(models, given, i) ==
    IF i > Len(given) THEN Added(models, "")
    ELSE LET r == addModel(models, given[i])
         IN IF r.panic \/ r.err # "" THEN r
            ELSE addModels(r.models, given, i + 1)

\* Table and Field are generated bindings, given here by their names: a
\* table reference and a field reference render as the name
tableGetSQL(table, scope) == table
tableGetFields(table) == IF table = "t" THEN <<"a", "b">> ELSE <<"c">>
fieldGetSQL(field, scope) == Ret(field, 0, "")

RECURSIVE commaFieldsLoop(_, _, _, _)
commaFieldsLoop(scope, fields, i, sql) ==
    IF i > Len(fields) THEN Ret(sql, 0, "")
    ELSE LET sep  == IF i > 1 THEN sql \o ", " ELSE sql
             item == fieldGetSQL(fields[i], scope)
         IN IF item.err # "" THEN Ret("", 0, item.err)
            ELSE commaFieldsLoop(scope, fields, i + 1, sep \o item.sql)

commaFields(scope, fields) == commaFieldsLoop(scope, fields, 1, "")

\* assignment.GetSQL from the point where both texts are known
assignmentText(value, fieldSql) ==
    CASE value.panic -> Panic
      [] ~value.panic /\ value.err # "" -> Ret("", 0, value.err)
      [] ~value.panic /\ value.err = "" /\ fieldSql.err # "" ->
            Ret("", 0, fieldSql.err)
      [] OTHER -> Ret(fieldSql.sql \o " = " \o value.sql, 0, "")

assignmentGetSQL(a, scope) ==
    assignmentText(getSQLFromWhatever(scope, a.value),
                   fieldGetSQL(a.field, scope))

RECURSIVE commaAssignmentsLoop(_, _, _, _)
commaAssignmentsLoop(scope, assignments, i, sql) ==
    IF i > Len(assignments) THEN Ret(sql, 0, "")
    ELSE LET sep  == IF i > 1 THEN sql \o ", " ELSE sql
             item == assignmentGetSQL(assignments[i], scope)
         IN CASE item.panic -> Panic
              [] ~item.panic /\ item.err # "" -> Ret("", 0, item.err)
              [] OTHER -> commaAssignmentsLoop(scope, assignments, i + 1,
                                               sep \o item.sql)

commaAssignments(scope, assignments) ==
    commaAssignmentsLoop(scope, assignments, 1, "")

\* GetSQL from the point where the texts of its parts are known
insertText(s, tableSql, fieldsSql, valuesSql, assignments, assignmentsSql) ==
    CASE fieldsSql.err # "" -> Ret("", 0, fieldsSql.err)
      [] fieldsSql.err = "" /\ valuesSql.panic -> Panic
      [] fieldsSql.err = "" /\ ~valuesSql.panic /\ valuesSql.err # "" ->
            Ret("", 0, valuesSql.err)
      [] OTHER ->
            CASE assignments = <<>> ->
                    Ret(s.method \o " INTO " \o tableSql \o " (" \o fieldsSql.sql
                        \o ") VALUES " \o valuesSql.sql, 0, "")
              [] assignments # <<>> /\ assignmentsSql.panic -> Panic
              [] assignments # <<>> /\ ~assignmentsSql.panic
                 /\ assignmentsSql.err # "" -> Ret("", 0, assignmentsSql.err)
              [] OTHER ->
                    Ret(s.method \o " INTO " \o tableSql \o " (" \o fieldsSql.sql
                        \o ") VALUES " \o valuesSql.sql
                        \o " ON DUPLICATE KEY UPDATE " \o assignmentsSql.sql,
                        0, "")

\* GetSQL from the point where fields and values are chosen
insertChosen(h, s, fields, values) ==
    insertText(s, tableGetSQL(s.scope.Tables[1], s.scope),
               commaFields(s.scope, fields), commaValues(s.scope, values),
               Cells(h, s.onDuplicateKeyUpdateAssignments),
               commaAssignments(s.scope,
                                Cells(h, s.onDuplicateKeyUpdateAssignments)))

\* the loop of GetSQL over the collected models: the first model that is a
\* nil pointer (GetTable panics) or belongs to another table ends it
RECURSIVE modelTables(_, _, _)
modelTables(models, i, table) ==
    IF i > Len(models) THEN "ok"
    ELSE IF models[i] = NilModelPtr THEN "panic"
    ELSE IF models[i].table # table THEN "invalid"
    ELSE modelTables(models, i + 1, table)

\* GetSQL from the point where the models, if any, are collected
insertCollected(h, s, r) ==
    CASE r.panic -> Panic
      [] ~r.panic /\ r.err # "" -> Ret("", 0, r.err)
      [] ~r.panic /\ r.err = "" /\ Len(s.models) > 0 /\ r.models = <<>> -> Panic
      [] ~r.panic /\ r.err = "" /\ r.models # <<>>
         /\ r.models[1] = NilModelPtr -> Panic
      [] ~r.panic /\ r.err = "" /\ r.models # <<>>
         /\ r.models[1] # NilModelPtr
         /\ modelTables(r.models, 1, s.scope.Tables[1]) = "panic" -> Panic
      [] ~r.panic /\ r.err = "" /\ r.models # <<>>
         /\ r.models[1] # NilModelPtr
         /\ modelTables(r.models, 1, s.scope.Tables[1]) = "invalid" ->
            Ret("", 0, "invalid table from model")
      [] OTHER ->
            insertChosen(h, s,
                         IF Len(s.models) > 0
                         THEN tableGetFields(r.models[1].table) ELSE s.fields,
                         IF Len(s.models) > 0
                         THEN [k \in DOMAIN r.models |->
                                  SliceValue(r.models[k].values)]
                         ELSE Cells(h, s.values))

insertGetSQL(h, s) == insertCollected(h, s, addModels(<<>>, s.models, 1))

(***************************************************************************)
(* The INSERT builder as a system: a program starts from InsertInto(t),    *)
(* keeps every builder it was returned, calls the methods the builder's    *)
(* interface offers on any of them, and asks any of them for its text.     *)
(***************************************************************************)
ModelT1 == ModelValue("t", <<IntValue(1), IntValue(2)>>)
ModelT2 == ModelValue("t", <<IntValue(3), IntValue(4)>>)
ModelU == ModelValue("u", <<IntValue(5)>>)

FieldLists == {<<"a">>, <<"a", "b">>}
Rows == {<<IntValue(1)>>, <<IntValue(2)>>}
ModelLists ==
    {<<>>, <<ModelT1>>, <<ModelU>>, <<ModelT1, ModelU>>,
     <<PtrValue(<<ModelT1>>)>>, <<SliceValue(<<ModelT1, ModelT2>>)>>,
     <<SliceValue(<<>>)>>, <<PtrValue(<<>>)>>, <<NilValue>>, <<IntValue(7)>>,
     <<ModelT1, IntValue(7)>>, <<OtherValue("chan")>>,
     <<NilModelPtr>>, <<NilModelPtr, IntValue(7)>>, <<ModelU, NilModelPtr>>,
     <<ModelT1, NilModelPtr>>, <<SliceValue(<<NilModelPtr>>), IntValue(7)>>,
     <<ArrayValue(<<>>), ModelT1>>, <<ArrayValue(<<ModelT1>>)>>,
     <<PtrValue(<<ArrayValue(<<ModelT1, ModelT2>>)>>)>>}
Sets == {<<"a", IntValue(1)>>, <<"b", OtherValue("map")>>}

\* what a builder holds, read through its slice headers, and what it renders
View(h, s) ==
    [method |-> s.method, scope |-> s.scope, fields |-> s.fields,
     values |-> Cells(h, s.values), models |-> s.models,
     assignments |-> Cells(h, s.onDuplicateKeyUpdateAssignments),
     out |-> insertGetSQL(h, s)]

\* the builders a program starts from: the one InsertInto returns, one
\* that holds rows, InsertInto(t).Fields(a).Values(1).Values(2).Values(3),
\* and one that holds rows and assignments
FreshBuilder ==
    [heap |-> <<>>, s |-> InsertInto("t"), iface |-> "InsertWithTable"]

ThreeRows ==
    LET r0 == insertFields(<<>>, InsertInto("t"), <<"a">>)
        r1 == insertValues(r0.heap, r0.s, <<IntValue(1)>>)
        r2 == insertValues(r1.heap, r1.s, <<IntValue(2)>>)
        r3 == insertValues(r2.heap, r2.s, <<IntValue(3)>>)
    IN [heap |-> r3.heap, s |-> r3.s, iface |-> "InsertWithValues"]

\* ThreeRows.OnDuplicateKeyUpdate().Set(a, 1).Set(b, 2).Set(a, 3)
ThreeSets ==
    LET r0 == insertOnDuplicateKeyUpdate(ThreeRows.heap, ThreeRows.s)
        r1 == insertSet(r0.heap, r0.s, "a", IntValue(1))
        r2 == insertSet(r1.heap, r1.s, "b", IntValue(2))
        r3 == insertSet(r2.heap, r2.s, "a", IntValue(3))
    IN [heap |-> r3.heap, s |-> r3.s, iface |-> "InsertWithOnDuplicateKeyUpdate"]

InsertSeeds == {FreshBuilder, ThreeRows, ThreeSets}

InsertInit ==
    /\ \E b \in InsertSeeds :
          /\ heap = b.heap
          /\ ins = <<[s |-> b.s, iface |-> b.iface, op |-> "seed",
                      parent |-> 0, arg |-> <<>>]>>
          /\ snap = <<View(b.heap, b.s)>>
    /\ got = [idx |-> 0]
    /\ e = NoNode
    /\ last = [op |-> "none"]
    /\ nops = 0
    /\ qs = <<>>
    /\ qout = <<>>

\* method op called on ins[i] with arg returned r.s, of interface iface
Derived(i, iface, op, arg, r) ==
    /\ heap' = r.heap
    /\ ins' = Append(ins, [s |-> r.s, iface |-> iface, op |-> op,
                           parent |-> i, arg |-> arg])
    /\ snap' = Append(snap, View(r.heap, r.s))
    /\ UNCHANGED <<got, exprVars, quoteVars>>

InsFields ==
    /\ Len(ins) < MaxBuilders
    /\ \E i \in DOMAIN ins, fields \in FieldLists :
          /\ ins[i].iface = "InsertWithTable"
          /\ Derived(i, "InsertWithValues", "Fields", fields,
                     insertFields(heap, ins[i].s, fields))

InsValues ==
    /\ Len(ins) < MaxBuilders
    /\ \E i \in DOMAIN ins, values \in Rows :
          /\ ins[i].iface \in {"InsertWithTable", "InsertWithValues"}
          /\ Derived(i, "InsertWithValues", "Values", values,
                     insertValues(heap, ins[i].s, values))

InsModels ==
    /\ Len(ins) < MaxBuilders
    /\ \E i \in DOMAIN ins, models \in ModelLists :
          /\ ins[i].iface \in {"InsertWithTable", "InsertWithModels"}
          /\ Derived(i, "InsertWithModels", "Models", models,
                     insertModels(heap, ins[i].s, models))

InsOnDuplicateKeyUpdate ==
    /\ Len(ins) < MaxBuilders
    /\ \E i \in DOMAIN ins :
          /\ ins[i].iface \in {"InsertWithValues", "InsertWithModels"}
          /\ Derived(i, "InsertWithOnDuplicateKeyUpdateBegin",
                     "OnDuplicateKeyUpdate", <<>>,
                     insertOnDuplicateKeyUpdate(heap, ins[i].s))

InsSet ==
    /\ Len(ins) < MaxBuilders
    /\ \E i \in DOMAIN ins, fv \in Sets :
          /\ ins[i].iface \in {"InsertWithOnDuplicateKeyUpdateBegin",
                               "InsertWithOnDuplicateKeyUpdate"}
          /\ Derived(i, "InsertWithOnDuplicateKeyUpdate", "Set", fv,
                     insertSet(heap, ins[i].s, fv[1], fv[2]))

InsGetSQL ==
    \E i \in DOMAIN ins :
       /\ ins[i].iface \in {"InsertWithValues", "InsertWithModels",
                            "InsertWithOnDuplicateKeyUpdate"}
       /\ got' = [idx |-> i, out |-> insertGetSQL(heap, ins[i].s)]
       /\ UNCHANGED <<heap, ins, snap, exprVars, quoteVars>>

InsertNext ==
    \/ InsFields
    \/ InsValues
    \/ InsModels
    \/ InsOnDuplicateKeyUpdate
    \/ InsSet
    \/ InsGetSQL

SpecInsert == InsertInit /\ [][InsertNext]_vars

(***************************************************************************)
(* Properties                                                              *)
(***************************************************************************)
Ok(r) == ~r.panic /\ r.err = ""
Errored(r) == ~r.panic /\ r.err # ""

BinaryOps == CompareOps \cup LogicOps \cup ArithOps

\* the operator token and the precedence the documented table gives a method
TokenOf(op) ==
    CASE op = "NotEquals" -> "<>" [] op = "Equals" -> "="
      [] op = "LessThan" -> "<" [] op = "LessThanOrEquals" -> "<="
      [] op = "GreaterThan" -> ">" [] op = "GreaterThanOrEquals" -> ">="
      [] op = "Like" -> "LIKE" [] op = "And" -> "AND" [] op = "Or" -> "OR"
      [] op = "Xor" -> "XOR" [] op = "Add" -> "+" [] op = "Sub" -> "-"
      [] op = "Mul" -> "*" [] op = "Div" -> "/" [] op = "IntDiv" -> "DIV"
      [] op = "Mod" -> "%"

PrecedenceOf(op) ==
    CASE op \in CompareOps -> 11
      [] op = "And" -> 14 [] op = "Xor" -> 15 [] op = "Or" -> 16
      [] op \in {"Add", "Sub"} -> 7
      [] op \in {"Mul", "Div", "IntDiv", "Mod"} -> 6
      [] op = "Not" -> 13
      [] op \in UnaryOps \ {"Not"} -> 11

\* the precedence a marshalled operand carries: its own for an expression,
\* 0 for every other value
OperandPrecedence(v) == IF v.kind = "expression" THEN v.expr.priority ELSE 0

\* the last call built a generic binary node over its receiver and argument
BuiltBinary ==
    /\ last.op \in BinaryOps
    /\ e.builder.kind = "binaryOperation"
    /\ e.builder.e = last.recv
    /\ e.builder.value = last.args[1]

\* C1: a binary operator node renders `L op R` with single spaces; L is the
\* left operand's text, in parentheses exactly when the left operand's
\* precedence is strictly greater than the operator's; R is the right
\* operand's text, in parentheses exactly when its precedence is greater than
\* or equal to the operator's.  So a.Add(b).Mul(b) is `(a + b) * b`,
\* a.Mul(b).Add(b) is `a * b + b`, a.Sub(b.Sub(1)) is `a - (b - 1)` and
\* a.Sub(b).Sub(b) is `a - b - b`.
C1_BinaryParenthesization ==
    /\ BuiltBinary =>
         LET L == GetSQL(last.recv, scope0)
             R == getSQL(scope0, last.args[1])
             p == PrecedenceOf(last.op)
         IN /\ e.priority = p
            /\ (Ok(L) /\ Ok(R)) =>
                 /\ Ok(Rendered)
                 /\ Rendered.sql =
                      (IF last.recv.priority > p THEN "(" \o L.sql \o ")" ELSE L.sql)
                      \o " " \o TokenOf(last.op) \o " " \o
                      (IF OperandPrecedence(last.args[1]) >= p
                       THEN "(" \o R.sql \o ")" ELSE R.sql)
    /\ (last.op = "Mul" /\ last.recv = Add(LitA, ExprValue(LitB))
          /\ last.args = <<ExprValue(LitB)>>) => Rendered.sql = "(a + b) * b"
    /\ (last.op = "Add" /\ last.recv = Mul(LitA, ExprValue(LitB))
          /\ last.args = <<ExprValue(LitB)>>) => Rendered.sql = "a * b + b"
    /\ (last.op = "Sub" /\ last.recv = LitA
          /\ last.args = <<ExprValue(Sub(LitB, IntValue(1)))>>)
          => Rendered.sql = "a - (b - 1)"
    /\ (last.op = "Sub" /\ last.recv = Sub(LitA, ExprValue(LitB))
          /\ last.args = <<ExprValue(LitB)>>) => Rendered.sql = "a - b - b"

C1_Witness ==
    /\ last.op = "Mul"
    /\ last.recv = Add(LitA, ExprValue(LitB))
    /\ last.args = <<ExprValue(LitB)>>
    /\ BuiltBinary
    /\ Rendered.sql = "(a + b) * b"

\* x is a node the folding recognizes as boolean
BooleanClassified(v) ==
    /\ v.kind = "expression"
    /\ (v.expr.isTrue \/ v.expr.isFalse \/ v.expr.isBool)

\* C2: False().And(x) is the left node and renders `0`; True().Or(x) is the
\* left node and renders `1`; True().And(x) and False().Or(x) render as x
\* alone when x is boolean-classified, and otherwise are the generic binary
\* node `1 AND x` / `0 OR x`.
C2_ConstantFolding ==
    /\ (last.op = "And" /\ last.recv = False)
          => (e = False /\ Ok(Rendered) /\ Rendered.sql = "0")
    /\ (last.op = "Or" /\ last.recv = True)
          => (e = True /\ Ok(Rendered) /\ Rendered.sql = "1")
    /\ ((last.op = "And" /\ last.recv = True) \/ (last.op = "Or" /\ last.recv = False))
          => LET x == last.args[1]
                 R == getSQL(scope0, x)
             IN IF BooleanClassified(x)
                THEN Rendered = GetSQL(x.expr, scope0)
                ELSE /\ e.builder.kind = "binaryOperation"
                     /\ Ok(R) => Rendered.sql =
                          (IF last.op = "And" THEN "1 AND " ELSE "0 OR ")
                          \o (IF OperandPrecedence(x) >= PrecedenceOf(last.op)
                              THEN "(" \o R.sql \o ")" ELSE R.sql)

C2_Witness ==
    /\ last.op = "And"
    /\ last.recv = True
    /\ last.args = <<ExprValue(Equals(LitB, IntValue(1)))>>
    /\ Rendered.sql = "b = 1"

\* a value made of lists only, to any depth: it holds no scalar
RECURSIVE OnlyLists(_)
OnlyLists(v) ==
    /\ IsList(v)
    /\ \A i \in 1..Len(v.elems) : OnlyLists(v.elems[i])

\* C3: with arguments that flatten to no value, x.In(...) is the constant
\* false and renders `0`, x.NotIn(...) is the constant true and renders `1`,
\* whatever x is: x is not rendered.
C3_EmptyIn ==
    (last.op \in {"In", "NotIn"}
       /\ \A i \in 1..Len(last.args) : OnlyLists(last.args[i]))
    => /\ e = (IF last.op = "In" THEN False ELSE True)
       /\ Ok(Rendered)
       /\ Rendered.sql = (IF last.op = "In" THEN "0" ELSE "1")

C3_Witness ==
    /\ last.op = "In"
    /\ last.recv = CallBad
    /\ Len(last.args) = 1
    /\ OnlyLists(last.args[1])
    /\ Len(last.args[1].elems) = 2
    /\ Rendered.sql = "0"

\* an argument structure without nil values and nil pointers
RECURSIVE NullFree(_)
NullFree(v) ==
    CASE v.kind = "nil" -> FALSE
      [] v.kind = "ptr" -> v.target # <<>> /\ NullFree(v.target[1])
      [] IsList(v) -> \A i \in 1..Len(v.elems) : NullFree(v.elems[i])
      [] OTHER -> TRUE

\* the scalars of a null-free argument structure, in order
RECURSIVE Scalars(_), ScalarsOfAll(_)
Scalars(v) ==
    CASE v.kind = "ptr" -> Scalars(v.target[1])
      [] IsList(v) -> ScalarsOfAll(v.elems)
      [] OTHER -> <<v>>
ScalarsOfAll(vs) ==
    IF vs = <<>> THEN <<>> ELSE Scalars(Head(vs)) \o ScalarsOfAll(Tail(vs))

\* the marshalled texts of the values, joined by ", "
RECURSIVE JoinMarshalled(_)
JoinMarshalled(vs) ==
    IF Len(vs) = 1 THEN getSQL(scope0, vs[1]).sql
    ELSE getSQL(scope0, vs[1]).sql \o ", " \o JoinMarshalled(Tail(vs))

\* C4: In / NotIn with exactly one flattened value that is no sub-statement
\* renders as Equals / NotEquals of that value; with two or more values it
\* renders `x IN (v1, ..., vn)` / `x NOT IN (...)`, values in flattened
\* order, each marshalled on its own, joined by ", ".
C4_InRendering ==
    (last.op \in {"In", "NotIn"} /\ \A i \in 1..Len(last.args) : NullFree(last.args[i]))
    => LET vs == ScalarsOfAll(last.args)
           X  == GetSQL(last.recv, scope0)
       IN /\ (Len(vs) = 1 /\ vs[1].kind # "select")
               => Rendered = GetSQL(IF last.op = "In"
                                    THEN Equals(last.recv, vs[1])
                                    ELSE NotEquals(last.recv, vs[1]), scope0)
          /\ (Len(vs) >= 2 /\ Ok(X) /\ \A i \in 1..Len(vs) : Ok(getSQL(scope0, vs[i])))
               => /\ Ok(Rendered)
                  /\ Rendered.sql =
                       X.sql \o (IF last.op = "In" THEN " IN (" ELSE " NOT IN (")
                       \o JoinMarshalled(vs) \o ")"
          /\ (last.recv = LitA /\ vs = <<IntValue(1), IntValue(2), IntValue(3)>>
                /\ last.op = "In") => Rendered.sql = "a IN (1, 2, 3)"
          /\ (last.recv = LitA /\ vs = <<IntValue(5)>> /\ last.op = "In")
               => Rendered.sql = "a = 5"

C4_Witness ==
    /\ last.op = "In"
    /\ last.recv = LitA
    /\ last.args = <<SliceValue(<<IntValue(1), SliceValue(<<IntValue(2)>>)>>),
                     IntValue(3)>>
    /\ Rendered.sql = "a IN (1, 2, 3)"

C4_WitnessSingle ==
    /\ last.op = "NotIn"
    /\ last.recv = LitA
    /\ last.args = <<PtrValue(<<IntValue(5)>>)>>
    /\ Rendered.sql = "a <> 5"

\* the nodes x for which x.Not().Not() is considered
NotSubjects == Seeds \cup {Or(LitP, ExprValue(LitQ)), Xor(LitP, ExprValue(LitQ))}

\* the last call was Not on x.Not(), x neither constant and renderable
DoubleNegationOf(x) ==
    /\ last.op = "Not"
    /\ ~x.isTrue /\ ~x.isFalse
    /\ last.recv = Not(x)
    /\ Ok(GetSQL(x, scope0))

\* C5 as stated: for a non-constant boolean node x, x.Not().Not() is not
\* simplified back to x and renders `NOT (NOT <expr>)`, <expr> being the
\* rendering of x.
C5_Original ==
    \A x \in NotSubjects :
        DoubleNegationOf(x) =>
            /\ e # x
            /\ Rendered.sql = "NOT (NOT " \o GetSQL(x, scope0).sql \o ")"

\* C5 amended: for a non-constant node x, x.Not().Not() is not simplified
\* back to x and renders `NOT NOT <expr>`, without parentheses around the
\* inner NOT; <expr> is the rendering of x, in parentheses when x is a render
\* closure whose precedence is greater than 13.
C5_DoubleNegation ==
    \A x \in NotSubjects :
        DoubleNegationOf(x) =>
            /\ e # x
            /\ Ok(Rendered)
            /\ Rendered.sql = "NOT NOT " \o
                 (IF x.sql = "" /\ x.priority > 13
                  THEN "(" \o GetSQL(x, scope0).sql \o ")"
                  ELSE GetSQL(x, scope0).sql)

C5_Witness ==
    /\ DoubleNegationOf(Or(LitP, ExprValue(LitQ)))
    /\ Rendered.sql = "NOT NOT (p OR q)"

PrefixOf(op) == IF op = "Not" THEN "NOT " ELSE ""
SuffixOf(op) ==
    CASE op = "IsNull" -> " IS NULL" [] op = "IsNotNull" -> " IS NOT NULL"
      [] op = "IsTrue" -> " IS TRUE" [] op = "IsNotTrue" -> " IS NOT TRUE"
      [] op = "IsFalse" -> " IS FALSE" [] op = "IsNotFalse" -> " IS NOT FALSE"
      [] op = "Not" -> ""

\* the last call built a prefix/suffix operator node
BuiltPrefixSuffix ==
    /\ last.op \in UnaryOps
    /\ ~(last.op = "Not" /\ (last.recv.isTrue \/ last.recv.isFalse))

\* C6: a prefix/suffix operator node of precedence p encloses its operand's
\* text in parentheses when, and only when, the operand's precedence is
\* strictly greater than p, be the operand a literal fragment or a closure.
C6_PrefixSuffixParenthesization ==
    (BuiltPrefixSuffix /\ Ok(GetSQL(last.recv, scope0)))
    => LET X == GetSQL(last.recv, scope0)
           p == PrecedenceOf(last.op)
       IN /\ Ok(Rendered)
          /\ Rendered.sql =
               PrefixOf(last.op)
               \o (IF last.recv.priority > p THEN "(" \o X.sql \o ")" ELSE X.sql)
               \o SuffixOf(last.op)

\* the node the last call would have built on receiver x and arguments args
Recall(x, args) ==
    CASE last.op \in BinaryOps \cup {"IfNull"} -> Call2(last.op, x, args[1])
      [] last.op \in UnaryOps \cup AggregateOps -> Call1(last.op, x)
      [] last.op = "In" -> In(x, args)
      [] last.op = "NotIn" -> NotIn(x, args)
      [] last.op = "Between" -> Between(x, args[1], args[2])
      [] last.op = "NotBetween" -> NotBetween(x, args[1], args[2])
      [] last.op = "As" -> As(x, args[1])

\* the fragment `(r)` as an operand that needs no further parentheses
ParenthesizedR == staticExpression("(r)", 0, FALSE)

\* C7: Raw(sql) has precedence 99 and its text is in parentheses wherever it
\* is an operand: left or right of a binary operator, operand of a
\* prefix/suffix operator, subject of IN / NOT IN and BETWEEN / NOT BETWEEN.
\* The text of the call is then that of the same call on the operand `(r)`.
C7_RawParenthesized ==
    /\ Raw("r").priority = 99
    /\ (last.op \in BinaryOps \cup UnaryOps \cup {"In", "NotIn", "Between", "NotBetween"}
          /\ last.recv = Raw("r") /\ e # Crash /\ Ok(Rendered)
          /\ e.builder.kind \in {"nil", "binaryOperation", "prefixSuffixExpression",
                                 "getBuilder", "buildBetween"}
          /\ e # True /\ e # False)
         => Rendered.sql = GetSQL(Recall(ParenthesizedR, last.args), scope0).sql
    /\ (BuiltBinary /\ last.args[1] = ExprValue(Raw("r")) /\ Ok(Rendered))
         => Rendered.sql =
              GetSQL(Recall(last.recv, <<ExprValue(ParenthesizedR)>>), scope0).sql

\* C8: every node has exactly one of its literal text and its render
\* function set.
C8_ExactlyOneSource ==
    e # Crash => ((e.sql # "") # (e.builder.kind # "nil"))

\* the results of the render and marshal calls the closure of node x makes
NestedCalls(x) ==
    LET b == x.builder
    IN CASE b.kind = "binaryOperation" -> {GetSQL(b.e, scope0), getSQL(scope0, b.value)}
         [] b.kind = "prefixSuffixExpression" -> {GetSQL(b.e, scope0)}
         [] b.kind = "buildBetween" ->
               {GetSQL(b.e, scope0), getSQL(scope0, b.min), getSQL(scope0, b.max)}
         [] b.kind = "getBuilder" ->
               {GetSQL(b.e, scope0)} \cup
               {IF b.values[i].kind = "select" /\ Len(b.values) = 1
                THEN selectGetSQL(b.values[i])
                ELSE getSQL(scope0, b.values[i]) : i \in 1..Len(b.values)}
         [] b.kind = "function" -> {getSQL(scope0, b.args[i]) : i \in 1..Len(b.args)}
         [] b.kind = "As" -> {GetSQL(b.e, scope0)}
         [] OTHER -> {}

\* the sequences (slices and arrays) the closure of node x hands to the
\* marshaller
MarshalledLists(x) ==
    LET b == x.builder
        values == CASE b.kind = "binaryOperation" -> {b.value}
                    [] b.kind = "buildBetween" -> {b.min, b.max}
                    [] b.kind = "function" -> {b.args[i] : i \in 1..Len(b.args)}
                    [] OTHER -> {}
    IN {v \in values : IsList(v)}

\* the results of the marshal calls made for the elements of sequence v
ElementCalls(v) == {getSQL(scope0, v.elems[i]) : i \in 1..Len(v.elems)}

\* C9: when a nested render or marshal call returns an error, the enclosing
\* render returns that error, unchanged, with the empty text, and so does
\* the marshal call of a sequence one element of which returns an error; a
\* render never returns a text together with an error.
C9_ErrorPropagation ==
    e # Crash =>
        /\ Errored(Rendered) => Rendered.sql = ""
        /\ (e.sql = "" /\ (\E r \in NestedCalls(e) : Errored(r))
              /\ \A r \in NestedCalls(e) : ~r.panic)
             => /\ Errored(Rendered)
                /\ Rendered.sql = ""
                /\ \E r \in NestedCalls(e) : Errored(r) /\ Rendered.err = r.err
        /\ \A v \in MarshalledLists(e) :
              ((\E r \in ElementCalls(v) : Errored(r))
                 /\ \A r \in ElementCalls(v) : ~r.panic)
                => /\ Errored(getSQL(scope0, v))
                   /\ getSQL(scope0, v).sql = ""
                   /\ \E r \in ElementCalls(v) :
                         Errored(r) /\ getSQL(scope0, v).err = r.err

\* the max of a BETWEEN is an array whose second element is a call that
\* cannot be rendered: the error of that element is the error of the render
C9_Witness ==
    /\ last.op = "Between"
    /\ last.args = <<IntValue(1), ArrayValue(<<IntValue(2), ExprValue(CallBad)>>)>>
    /\ last.recv = LitA
    /\ MarshalledLists(e) = {ArrayValue(<<IntValue(2), ExprValue(CallBad)>>)}
    /\ Errored(GetSQL(CallBad, scope0))
    /\ Rendered.err = GetSQL(CallBad, scope0).err
    /\ Rendered.err = "invalid type struct"
    /\ Rendered.sql = ""

\* the bytes the escaping rule names
EscapedBytes == {0, 10, 13, 92, 39, 34, 26}

RECURSIVE Escaped(_)
Escaped(s) ==
    IF s = <<>> THEN <<>>
    ELSE (IF Head(s) \in EscapedBytes THEN <<92, Head(s)>> ELSE <<Head(s)>>)
         \o Escaped(Tail(s))

\* drop each escaping backslash and keep the byte after it
RECURSIVE Unescaped(_)
Unescaped(t) ==
    IF t = <<>> THEN <<>>
    ELSE IF Head(t) = 92 THEN <<t[2]>> \o Unescaped(Tail(Tail(t)))
    ELSE <<Head(t)>> \o Unescaped(Tail(t))

\* C10: quoteString(s) is s in single quotes with exactly one backslash
\* before each byte of the escaped set and every other byte copied; dropping
\* the quotes and the escaping backslashes gives s back; the length is
\* len(s) + 2 + the number of escaped bytes of s; the empty string is ''.
C10_QuoteRoundTrip ==
    qout # <<>> =>
        /\ qout = <<39>> \o Escaped(qs) \o <<39>>
        /\ Unescaped(SubSeq(qout, 2, Len(qout) - 1)) = qs
        /\ Len(qout) = Len(qs) + 2
                       + Cardinality({i \in 1..Len(qs) : qs[i] \in EscapedBytes})
        /\ (qs = <<>> => qout = <<39, 39>>)

C10_Witness ==
    /\ qs = <<97, 39, 92>>
    /\ qout = <<39, 97, 92, 39, 92, 92, 39>>

\* the scalars of an argument structure when a nil value or a nil pointer
\* ends its own branch and nothing else, in order
RECURSIVE ScalarsSkippingNulls(_), ScalarsSkippingNullsOfAll(_)
ScalarsSkippingNulls(v) ==
    CASE v.kind = "nil" -> <<>>
      [] v.kind = "ptr" ->
            IF v.target = <<>> THEN <<>> ELSE ScalarsSkippingNulls(v.target[1])
      [] IsList(v) -> ScalarsSkippingNullsOfAll(v.elems)
      [] OTHER -> <<v>>
ScalarsSkippingNullsOfAll(vs) ==
    IF vs = <<>> THEN <<>>
    ELSE ScalarsSkippingNulls(Head(vs)) \o ScalarsSkippingNullsOfAll(Tail(vs))

\* C11: flattening the arguments of In / NotIn tolerates nulls: a nil value
\* or a nil pointer ends its branch without an abnormal failure, and the
\* other branches are flattened in order.
C11_NullTolerantFlattening ==
    last.op \in {"In", "NotIn"} =>
        /\ e # Crash
        /\ LET vs == ScalarsSkippingNullsOfAll(last.args)
           IN IF vs = <<>>
              THEN e = (IF last.op = "In" THEN False ELSE True)
              ELSE e.builder.kind = "getBuilder" /\ e.builder.values = vs

\* the operators that return a predicate
PredicateOps == CompareOps \cup LogicOps \cup UnaryOps
                \cup {"In", "NotIn", "Between", "NotBetween"}

\* C13: every node a predicate-producing operator returns is
\* boolean-classified, so True().And(p) and False().Or(p) render as p alone.
C13_PredicatesAreBoolean ==
    (last.op \in PredicateOps /\ e # Crash) =>
        /\ (e.isTrue \/ e.isFalse \/ e.isBool)
        /\ GetSQL(And(True, ExprValue(e)), scope0) = Rendered
        /\ GetSQL(Or(False, ExprValue(e)), scope0) = Rendered

\* the last call built an IN / NOT IN list or sub-statement node
BuiltInList ==
    /\ last.op \in {"In", "NotIn"}
    /\ e # Crash
    /\ e.builder.kind = "getBuilder"
    /\ (Len(e.builder.values) >= 2 \/ e.builder.values[1].kind = "select")

\* C14: the subject of IN / NOT IN (two or more values, or one
\* sub-statement) is in parentheses when its precedence is greater than 11,
\* the subject of BETWEEN / NOT BETWEEN when it is greater than 12.
C14_SubjectParenthesization ==
    LET X == GetSQL(last.recv, scope0)
    IN /\ (BuiltInList /\ Ok(Rendered)) =>
            Rendered.sql =
              (IF last.recv.priority > 11 THEN "(" \o X.sql \o ")" ELSE X.sql)
              \o (IF last.op = "In" THEN " IN (" ELSE " NOT IN (")
              \o (IF e.builder.values[1].kind = "select" /\ Len(e.builder.values) = 1
                  THEN selectGetSQL(e.builder.values[1]).sql
                  ELSE JoinMarshalled(e.builder.values))
              \o ")"
       /\ (last.op \in {"Between", "NotBetween"} /\ Ok(Rendered)) =>
            Rendered.sql =
              (IF last.recv.priority > 12 THEN "(" \o X.sql \o ")" ELSE X.sql)
              \o (IF last.op = "Between" THEN " BETWEEN " ELSE " NOT BETWEEN ")
              \o getSQL(scope0, last.args[1]).sql \o " AND "
              \o getSQL(scope0, last.args[2]).sql

\* C12 (nodes are immutable and can be shared) has no formula here.  A node
\* is a value of this module and every method and render is an operator on
\* values, as the methods of expression have value receivers and no closure
\* assigns a captured variable: the statement holds of whatever the
\* operators compute.

\* what the builder returned by the call that made ins[k] has to hold: the
\* content of its parent as the parent was returned, changed by the call
Expected(k) ==
    LET p == snap[ins[k].parent]
        a == ins[k].arg
    IN CASE ins[k].op = "Fields" -> [p EXCEPT !.fields = a]
         [] ins[k].op = "Values" ->
               [p EXCEPT !.values = Append(@, SliceValue(a))]
         [] ins[k].op = "Models" -> [p EXCEPT !.models = a]
         [] ins[k].op = "Set" ->
               [p EXCEPT !.assignments =
                            Append(@, [field |-> a[1], value |-> a[2]])]
         [] OTHER -> p

SameButOut(v, w) == [v EXCEPT !.out = w.out] = w

\* C15: INSERT builders are copy-on-write.  Fields, Values, Models,
\* OnDuplicateKeyUpdate and Set return a new builder and leave the one they
\* were called on as it was: every builder keeps holding what it held when
\* it was returned (its parent's content plus its own call, never a row or
\* an assignment of a sibling), and GetSQL on it returns the same result
\* however many builders were derived from it since.
C15_CopyOnWrite ==
    /\ \A k \in DOMAIN ins :
          /\ View(heap, ins[k].s) = snap[k]
          /\ ins[k].parent > 0 => SameButOut(snap[k], Expected(k))
    /\ got.idx > 0 => got.out = snap[got.idx].out

\* two builders derived from one parent by separate Values calls with
\* different rows, the parent holding a row already, and GetSQL called on
\* the parent afterwards
\* two builders were derived by method op, with different arguments, from
\* one parent that GetSQL was then called on
Siblings(op, i, j, k) ==
    /\ j < k
    /\ ins[j].parent = i /\ ins[k].parent = i
    /\ ins[j].op = op /\ ins[k].op = op
    /\ ins[j].arg # ins[k].arg
    /\ got.idx = i
    /\ Ok(got.out)

\* the Set case: the parent already holds assignments, in a backing array
\* with room for one more
C15_Witness ==
    \E i, j, k \in DOMAIN ins :
       /\ Siblings("Set", i, j, k)
       /\ snap[i].assignments # <<>>
       /\ Len(snap[j].assignments) = Len(snap[i].assignments) + 1
       /\ snap[j].assignments # snap[k].assignments

\* the Values case: the parent already holds rows
C15_WitnessValues ==
    \E i, j, k \in DOMAIN ins :
       /\ Siblings("Values", i, j, k)
       /\ snap[i].values # <<>>
       /\ Len(snap[j].values) = Len(snap[i].values) + 1
       /\ snap[j].values # snap[k].values

\* the value is a model, or a pointer to or a list of such values
RECURSIVE IsModels(_)
IsModels(v) ==
    CASE v.kind = "model" \/ v = NilModelPtr -> TRUE
      [] v.kind = "ptr" /\ v # NilModelPtr ->
            v.target # <<>> /\ IsModels(v.target[1])
      [] IsList(v) -> \A k \in DOMAIN v.elems : IsModels(v.elems[k])
      [] OTHER -> FALSE

\* the tables of the models a value holds
RECURSIVE TablesOf(_)
TablesOf(v) ==
    CASE v.kind = "model" -> {v.table}
      [] v.kind = "ptr" -> IF v.target = <<>> THEN {} ELSE TablesOf(v.target[1])
      [] IsList(v) -> UNION {TablesOf(v.elems[k]) : k \in DOMAIN v.elems}
      [] OTHER -> {}

\* C16: GetSQL on an insert builder reached by Fields, Values, Models and
\* Set (Models given an empty list, a pointer or a non-model included)
\* completes with either text and no error or an error and empty text, never
\* abnormally; when models are supplied and one of them belongs to another
\* table than the target, or a supplied value is not a model, it returns an
\* error with empty text.
C16_GetSQLTotal ==
    got.idx > 0 =>
        LET s == ins[got.idx].s
            r == got.out
        IN /\ ~r.panic
           /\ (r.err = "" /\ r.sql # "") \/ (r.err # "" /\ r.sql = "")
           /\ (\E k \in DOMAIN s.models :
                  \/ ~IsModels(s.models[k])
                  \/ TablesOf(s.models[k]) \ {s.scope.Tables[1]} # {})
              => (r.err # "" /\ r.sql = "")

====
